---- MODULE Spec2Model ----
(***************************************************************************)
(* Car-insurance registry bot (src/index.js): the record store and its     *)
(* command handlers, the expiry classifier, the pager and the alert        *)
(* deliveries, modelled as a state machine.                                *)
(*                                                                         *)
(* Time is an integer count of ticks; one day is TicksPerDay ticks, so a   *)
(* Date is a tick count and moment#diff(..., 'days', true) is the          *)
(* quotient (expiry - now) / TicksPerDay before rounding.                  *)
(***************************************************************************)
EXTENDS Integers, Sequences, FiniteSets, TLC

\* ---------------------------------------------------------------- bounds
TicksPerDay == 2        \* clock resolution: ticks in one 24h day
MaxNow      == 2        \* the clock stops advancing at this tick
MaxIds      == 3        \* number of documents ever inserted
MaxCalls    == 2        \* number of command invocations ever started
NumProcs    == 2        \* command invocations that may be in flight together
FnMaxNow    == 7        \* range of `now` for the pure-function runs
FnMaxLen    == 25       \* longest array handed to chunkArray
FnMaxDays   == 10       \* getStatusEmoji is run on -FnMaxDays..FnMaxDays
AlertMaxCars == 21      \* largest store the delivery runs start from
MaxPosts    == 2        \* qualifying messages counted per DM invocation
AlertMaxCalls == 1      \* commands ever started in the delivery runs, next
                        \* to the one firing of the scheduled job
MaxViews    == 2        \* multi-page list views ever opened
MaxClicks   == 3        \* button interactions ever received
MaxSuggests == 2        \* autocomplete interactions ever received

\* ------------------------------------------------------- program constants
PageSize       == 10                         \* chunkArray(..., 10)
MinutesPerDay  == 1440
TzOffsetMinutes == 330                       \* Asia/Kolkata is UTC+05:30
RemovalPassword == "slayers1"
NewCarTag      == <<"n","e","w","_","c","a","r","_">>   \* 'new_car_'
SuggestLimit   == 25                         \* .limit(25)
CollectorTime  == 2                          \* time: 60000, in steps of 30 s

Procs == 1..NumProcs
Sched == 0                     \* the scheduled job
Outsider == NumProcs + 1       \* invocations of a member without a required role
Callers == Procs \cup {Outsider}
Tasks == {Sched} \cup Callers
Ids   == 1..MaxIds
NoDoc == [none |-> TRUE]

\* ------------------------------------------------------------ input sets
\* Plates are sequences of characters.  "A1" and "a1" differ only in case;
\* "A" is too short and "A_" has a character outside the class.
PlateInputs == { <<"A","1">>, <<"a","1">>, <<"A">>, <<"A","_">>,
                 NewCarTag \o <<"Z","9">> }
NameInputs     == {"Camry"}
DaysLeftInputs == {3, 5}       \* days_left, min_value 1
DaysAddInputs  == {2}          \* days_to_add, min_value 1
DaysLessInputs == {3, 10}      \* days_to_subtract, min_value 1
PasswordInputs == {"slayers1", "letmein"}
Guest          == "guest#0003"
UserTag(p)     == IF p = 1 THEN "op1#0001"
                  ELSE IF p \in Procs THEN "op2#0002" ELSE Guest
\* interaction.member.roles of the member behind invocation p
Member(p)      == IF p = 1 THEN {"ADMIN_ROLE_ID"}
                  ELSE IF p \in Procs THEN {"MANAGER_ROLE_ID", "SLAYER_ROLE_ID"}
                  ELSE {"SLAYER_ROLE_ID"}

VARIABLES
  now,      \* the wall clock, in ticks
  alive,    \* FALSE once the process has died
  store,    \* the CarInsurance collection: _id -> document or NoDoc
  nextId,   \* next _id the driver hands out
  calls,    \* command invocations the run may still start
  pc,       \* per invocation: where its handler is suspended
  args,     \* per invocation: the interaction's options
  car,      \* per invocation: the document object the handler holds
  reply,    \* per invocation: what the operator was answered
  fnCall,   \* pure-function runs: the last call, its argument and result
  channelOk,\* whether client.channels.cache has the alert channel
  cars,     \* per task: the documents its delivery pages (alertList, cars)
  target,   \* per task: targetUser of a DM delivery
  idx,      \* per task: sends of its delivery handed to the platform so far
  inflight, \* sends handed to the platform and not yet settled
  sink,     \* per delivery: the messages the alert channel and the DM
            \* targets have received from it, in order of arrival
  posted,   \* per invocation: the messages passing its collector's filter
            \* that were posted since its prompt (history, at most MaxPosts)
  views,    \* the multi-page list views, in order of creation: embeds,
            \* currentPage and the collector of each, and what its message shows
  click,    \* the last button interaction and the collectors that took it
  suggested,\* the last autocomplete interaction and what it was answered
  conns     \* the platform client, the database connection, the exit code

alertVars == <<channelOk, posted, cars, target, idx, inflight, sink>>
uiVars == <<views, click, suggested, conns>>
vars == <<now, alive, store, nextId, calls, pc, args, car, reply, fnCall,
          channelOk, posted, cars, target, idx, inflight, sink,
          views, click, suggested, conns>>

NoArgs == [cmd |-> "none"]
NoCar  == [id |-> 0]

\* ------------------------------------------------------------ pure helpers
Lower == {"a","b","c","d","e","f","g","h","i","j","k","l","m",
          "n","o","p","q","r","s","t","u","v","w","x","y","z"}
Upper == {"A","B","C","D","E","F","G","H","I","J","K","L","M",
          "N","O","P","Q","R","S","T","U","V","W","X","Y","Z"}
Digit == {"0","1","2","3","4","5","6","7","8","9"}

\* /^[A-Z0-9-]{2,15}$/i.test(numberPlate)
PlateRegexTest_open(numberPlate) ==
  /\ Len(numberPlate) >= 2
  /\ \A i \in 1..Len(numberPlate) :
        numberPlate[i] \in Upper \cup Lower \cup Digit \cup {"-"}
PlateRegexTest(numberPlate) ==
  /\ Len(numberPlate) >= 2
  /\ Len(numberPlate) <= 15
  /\ \A i \in 1..Len(numberPlate) :
        numberPlate[i] \in Upper \cup Lower \cup Digit \cup {"-"}

\* numberPlate.startsWith('new_car_')
StartsWithNewCar(numberPlate) ==
  /\ Len(numberPlate) >= Len(NewCarTag)
  /\ SubSeq(numberPlate, 1, Len(NewCarTag)) = NewCarTag

\* Math.ceil(a / b) for b > 0
Ceil(a, b) == -((-a) \div b)

\* expiry.diff(now, 'days', true), rounded up
getDaysLeft_floor(expiryDate) == (expiryDate - now) \div TicksPerDay
getDaysLeft(expiryDate) == Ceil(expiryDate - now, TicksPerDay)

getStatusEmoji_lt(daysLeft) ==
  IF daysLeft < 0 THEN "EXPIRED"
  ELSE IF daysLeft <= 3 THEN "URGENT"
  ELSE IF daysLeft <= 7 THEN "WARNING"
  ELSE "ACTIVE"
getStatusEmoji(daysLeft) ==
  IF daysLeft <= 0 THEN "EXPIRED"
  ELSE IF daysLeft <= 3 THEN "URGENT"
  ELSE IF daysLeft <= 7 THEN "WARNING"
  ELSE "ACTIVE"

\* array.splice(0, chunkSize): the elements removed, and what is left
SpliceTaken(array, chunkSize) ==
  SubSeq(array, 1, IF chunkSize < Len(array) THEN chunkSize ELSE Len(array))
SpliceRest(array, chunkSize) ==
  SubSeq(array, (IF chunkSize < Len(array) THEN chunkSize ELSE Len(array)) + 1,
         Len(array))

RECURSIVE chunkArray_drop(_, _)
chunkArray_drop(array, chunkSize) ==
  IF Len(array) < chunkSize THEN <<>>
  ELSE <<SpliceTaken(array, chunkSize)>>
         \o chunkArray_drop(SpliceRest(array, chunkSize), chunkSize)
RECURSIVE chunkArray(_, _)
chunkArray(array, chunkSize) ==
  IF Len(array) = 0 THEN <<>>
  ELSE <<SpliceTaken(array, chunkSize)>>
         \o chunkArray(SpliceRest(array, chunkSize), chunkSize)

\* ------------------------------------------------------------ record store
Docs == {id \in DOMAIN store : store[id] # NoDoc}

\* the unique index on numberPlate (exact, case-sensitive match)
UniqueIndexViolated_off(numberPlate) == FALSE
UniqueIndexViolated(numberPlate) ==
  \E id \in Docs : store[id].numberPlate = numberPlate

\* CarInsurance.findOne({ numberPlate }): the _id found, or 0
findOne(numberPlate) ==
  IF \E id \in Docs : store[id].numberPlate = numberPlate
  THEN CHOOSE id \in Docs : store[id].numberPlate = numberPlate
  ELSE 0

\* ---------------------------------------------------------------- driver
\* no delivery has been started
AlertIdle ==
  /\ cars = [t \in Tasks |-> <<>>]
  /\ target = [t \in Tasks |-> "nobody"]
  /\ idx = [t \in Tasks |-> 0]
  /\ inflight = {}
  /\ sink = [c \in 0..AlertMaxCalls |-> <<>>]
  /\ posted = [t \in Tasks |-> 0]

\* no list view is open, no button was pressed, nothing was suggested, both
\* connections are up
NoClick   == [n |-> 0]
NoSuggest == [n |-> 0, by |-> "nobody"]
UiIdle ==
  /\ views = <<>>
  /\ click = NoClick
  /\ suggested = NoSuggest
  /\ conns = [client |-> "ready", mongoose |-> "connected", exit |-> "none",
              signal |-> "none"]

Idle(p) == pc[p] \in {"idle", "done"}

\* requiredRoles.some(roleId => member.roles.cache.has(roleId))
requiredRoles == {"ADMIN_ROLE_ID", "MANAGER_ROLE_ID", "HIGH_COMMAND_ROLE_ID",
                  "FOUNDER_ROLE_ID", "CO_FOUNDER_ROLE_ID"}
checkRoles_slayer(member) ==
  \E roleId \in requiredRoles \cup {"SLAYER_ROLE_ID"} : roleId \in member
checkRoles(member) == \E roleId \in requiredRoles : roleId \in member

\* interactionCreate with interaction.isCommand()
Dispatch(p) ==
  /\ alive
  /\ Idle(p)
  /\ calls > 0
  /\ calls' = calls - 1

\* the switch on commandName is reached
Begin(p) ==
  /\ Dispatch(p)
  /\ checkRoles(Member(p))


\* a command of the delivery runs is dispatched
BeginAlert(p) == Begin(p)

\* the handler returns: its locals are gone, the operator holds the reply
Finish(p, r) ==
  /\ pc' = [pc EXCEPT ![p] = "done"]
  /\ reply' = [reply EXCEPT ![p] = r]
  /\ args' = [args EXCEPT ![p] = NoArgs]
  /\ car' = [car EXCEPT ![p] = NoCar]

\* Logger has no static method `error`: Logger.error(...) raises a TypeError
\* in every catch block that calls it, the rejection reaches the
\* unhandledRejection handler, which calls Logger.error again, and the
\* process dies.
Crash(p) ==
  /\ alive' = FALSE
  /\ pc' = [pc EXCEPT ![p] = "crashed"]
  /\ UNCHANGED <<reply, args, car>>

\* if (!checkRoles(interaction.member)): the denial reply, then return
Denied(p) ==
  /\ Dispatch(p)
  /\ ~checkRoles(Member(p))
  /\ Finish(p, "AccessDenied")
  /\ UNCHANGED <<now, alive, store, nextId, fnCall, uiVars, alertVars>>

Tick ==
  /\ alive
  /\ now < MaxNow
  /\ now' = now + 1
  /\ UNCHANGED <<alive, store, nextId, calls, pc, args, car, reply, fnCall, uiVars, alertVars>>

\* --------------------------------------------------- handleNewCarInsurance
\* up to `await newInsurance.save()`
NewStart(p, carName, numberPlate, daysLeft) ==
  /\ Begin(p)
  /\ IF ~PlateRegexTest(numberPlate)
     THEN Finish(p, "InvalidPlate")
     ELSE /\ args' = [args EXCEPT ![p] =
                 [cmd |-> "new", numberPlate |-> numberPlate, days |-> daysLeft]]
          /\ car' = [car EXCEPT ![p] =
                 [id |-> 0,
                  carName |-> carName,
                  numberPlate |-> numberPlate,
                  expiryDate |-> now + daysLeft * TicksPerDay,
                  addedBy |-> UserTag(p),
                  lastUpdated |-> now]]
          /\ pc' = [pc EXCEPT ![p] = "new_save"]
          /\ reply' = [reply EXCEPT ![p] = "none"]
  /\ UNCHANGED <<now, alive, store, nextId, fnCall, uiVars, alertVars>>

\* the insert reaches the database, then the reply
NewSave(p) ==
  /\ alive
  /\ pc[p] = "new_save"
  /\ IF UniqueIndexViolated(car[p].numberPlate)
     THEN /\ Finish(p, "Duplicate")               \* err.code === 11000
          /\ UNCHANGED <<store, nextId>>
     ELSE /\ nextId <= MaxIds
          /\ store' = [store EXCEPT ![nextId] =
                 [carName |-> car[p].carName,
                  numberPlate |-> car[p].numberPlate,
                  expiryDate |-> car[p].expiryDate,
                  addedBy |-> car[p].addedBy,
                  lastUpdated |-> car[p].lastUpdated]]
          /\ nextId' = nextId + 1
          /\ Finish(p, "Registered")
  /\ UNCHANGED <<now, alive, calls, fnCall, uiVars, alertVars>>

\* ---------------------------------------------------- document save (update)
\* car.save() on a document loaded by findOne: an update of the modified
\* paths, addressed by _id.  When the document is gone the driver matches
\* nothing: the save rejects (DocumentNotFoundError) or resolves without
\* effect, depending on the mongoose release; it never inserts.
SetFields_all(id, doc) ==
  [store EXCEPT ![id] = [carName |-> doc.carName,
                         numberPlate |-> doc.numberPlate,
                         expiryDate |-> doc.expiryDate,
                         addedBy |-> "system",
                         lastUpdated |-> doc.lastUpdated]]
SetFields(id, doc) ==
  [store EXCEPT ![id].expiryDate = doc.expiryDate,
                ![id].lastUpdated = doc.lastUpdated]

DocSave_upsert(p, okReply) ==
  /\ store' = [store EXCEPT ![car[p].id] =
                 [carName |-> car[p].carName,
                  numberPlate |-> car[p].numberPlate,
                  expiryDate |-> car[p].expiryDate,
                  addedBy |-> car[p].addedBy,
                  lastUpdated |-> car[p].lastUpdated]]
  /\ Finish(p, okReply)
  /\ UNCHANGED alive
DocSave(p, okReply) ==
  IF store[car[p].id] # NoDoc
  THEN /\ store' = SetFields(car[p].id, car[p])
       /\ Finish(p, okReply)
       /\ UNCHANGED alive
  ELSE /\ UNCHANGED store
       /\ \/ Finish(p, okReply) /\ UNCHANGED alive
          \/ Crash(p)

\* what findOne hands to the handler: a copy of the stored document
Loaded(id) ==
  [id |-> id,
   carName |-> store[id].carName,
   numberPlate |-> store[id].numberPlate,
   expiryDate |-> store[id].expiryDate,
   addedBy |-> store[id].addedBy,
   lastUpdated |-> store[id].lastUpdated]

\* --------------------------------------------------- handleAddCarInsurance
\* up to `await CarInsurance.findOne(...)`
AddStart(p, numberPlate, daysToAdd) ==
  /\ Begin(p)
  /\ IF StartsWithNewCar(numberPlate)
     THEN Finish(p, "Redirect")
     ELSE /\ args' = [args EXCEPT ![p] =
                 [cmd |-> "add", numberPlate |-> numberPlate, days |-> daysToAdd]]
          /\ pc' = [pc EXCEPT ![p] = "add_find"]
          /\ reply' = [reply EXCEPT ![p] = "none"]
          /\ UNCHANGED car
  /\ UNCHANGED <<now, alive, store, nextId, fnCall, uiVars, alertVars>>

\* findOne resolves; the handler runs up to `await car.save()`
AddFind(p) ==
  /\ alive
  /\ pc[p] = "add_find"
  /\ IF findOne(args[p].numberPlate) = 0
     THEN Finish(p, "NotFound")
     ELSE /\ car' = [car EXCEPT ![p] =
                 [Loaded(findOne(args[p].numberPlate)) EXCEPT
                    !.expiryDate = @ + args[p].days * TicksPerDay,
                    !.lastUpdated = now]]
          /\ pc' = [pc EXCEPT ![p] = "add_save"]
          /\ UNCHANGED <<args, reply>>
  /\ UNCHANGED <<now, alive, store, nextId, calls, fnCall, uiVars, alertVars>>

AddSave(p) ==
  /\ alive
  /\ pc[p] = "add_save"
  /\ DocSave(p, "Extended")
  /\ UNCHANGED <<now, nextId, calls, fnCall, uiVars, alertVars>>

\* -------------------------------------------------- handleLessCarInsurance
\* if (daysLeft < 0) reject
Rejects_le(daysLeft) == daysLeft <= 0
Rejects(daysLeft) == daysLeft < 0

LessStart(p, numberPlate, daysToSubtract) ==
  /\ Begin(p)
  /\ IF StartsWithNewCar(numberPlate)
     THEN Finish(p, "Redirect")
     ELSE /\ args' = [args EXCEPT ![p] =
                 [cmd |-> "less", numberPlate |-> numberPlate,
                  days |-> daysToSubtract]]
          /\ pc' = [pc EXCEPT ![p] = "less_find"]
          /\ reply' = [reply EXCEPT ![p] = "none"]
          /\ UNCHANGED car
  /\ UNCHANGED <<now, alive, store, nextId, fnCall, uiVars, alertVars>>

\* findOne resolves; newExpiry is computed and classified; the handler
\* rejects, or runs up to `await car.save()`
LessFind(p) ==
  /\ alive
  /\ pc[p] = "less_find"
  /\ IF findOne(args[p].numberPlate) = 0
     THEN Finish(p, "NotFound")
     ELSE LET found == Loaded(findOne(args[p].numberPlate))
              newExpiry == found.expiryDate - args[p].days * TicksPerDay
          IN IF Rejects(getDaysLeft(newExpiry))
             THEN Finish(p, "InvalidAdjustment")
             ELSE /\ car' = [car EXCEPT ![p] =
                         [found EXCEPT !.expiryDate = newExpiry,
                                       !.lastUpdated = now]]
                  /\ pc' = [pc EXCEPT ![p] = "less_save"]
                  /\ UNCHANGED <<args, reply>>
  /\ UNCHANGED <<now, alive, store, nextId, calls, fnCall, uiVars, alertVars>>

LessSave(p) ==
  /\ alive
  /\ pc[p] = "less_save"
  /\ DocSave(p, "Reduced")
  /\ UNCHANGED <<now, nextId, calls, fnCall, uiVars, alertVars>>

\* ------------------------------------------------ handleRemoveCarInsurance
\* up to `await CarInsurance.findOneAndDelete(...)`
RemoveStart(p, numberPlate, password) ==
  /\ Begin(p)
  /\ IF StartsWithNewCar(numberPlate)
     THEN Finish(p, "Unregistered")     \* 'Cannot remove unregistered vehicle'
     ELSE IF password # RemovalPassword
     THEN Finish(p, "WrongPassword")
     ELSE /\ args' = [args EXCEPT ![p] =
                 [cmd |-> "remove", numberPlate |-> numberPlate, days |-> 0]]
          /\ pc' = [pc EXCEPT ![p] = "remove_delete"]
          /\ reply' = [reply EXCEPT ![p] = "none"]
          /\ UNCHANGED car
  /\ UNCHANGED <<now, alive, store, nextId, fnCall, uiVars, alertVars>>

\* findOneAndDelete: one atomic operation of the database
RemoveDelete_any(p) ==
  /\ alive
  /\ pc[p] = "remove_delete"
  /\ IF Docs = {}
     THEN /\ Finish(p, "NotFound")
          /\ UNCHANGED store
     ELSE /\ \E id \in Docs : store' = [store EXCEPT ![id] = NoDoc]
          /\ Finish(p, "Removed")
  /\ UNCHANGED <<now, alive, nextId, calls, fnCall, uiVars, alertVars>>
RemoveDelete(p) ==
  /\ alive
  /\ pc[p] = "remove_delete"
  /\ IF findOne(args[p].numberPlate) = 0
     THEN /\ Finish(p, "NotFound")
          /\ UNCHANGED store
     ELSE /\ store' = [store EXCEPT ![findOne(args[p].numberPlate)] = NoDoc]
          /\ Finish(p, "Removed")
  /\ UNCHANGED <<now, alive, nextId, calls, fnCall, uiVars, alertVars>>

\* -------------------------------------------------------------- deliveries
\* A delivery is the page loop of the scheduled job, of alert_insurance, or
\* of the collect callback of a DM command.  Each `await ....send(...)` hands
\* one message to the platform (inflight); the platform settles it later,
\* by delivering it to its sink or by rejecting it.
AuthorInputs  == {UserTag(1), UserTag(2), Guest}
\* m.mentions.users of a posted message: none, the guest, the first
\* operator alone, the guest and then the first operator
MentionInputs == {<<>>, <<Guest>>, <<UserTag(1)>>, <<Guest, UserTag(1)>>}

StoreVars == <<store, nextId>>

\* cars.filter(car => getDaysLeft(car.expiryDate) <= 3)
Expiring_week(doc) == getDaysLeft(doc.expiryDate) <= 7
Expiring(doc) == getDaysLeft(doc.expiryDate) <= 3

\* CarInsurance.find(): every document, in natural (_id) order
find ==
  SelectSeq([id \in 1..Len(store) |->
               IF store[id] = NoDoc THEN NoCar ELSE Loaded(id)],
            LAMBDA doc : doc # NoCar)

\* .sort({ expiryDate: 1 })
RECURSIVE InsertByExpiry(_, _)
InsertByExpiry(doc, sorted) ==
  IF sorted = <<>> THEN <<doc>>
  ELSE IF doc.expiryDate < Head(sorted).expiryDate THEN <<doc>> \o sorted
  ELSE <<Head(sorted)>> \o InsertByExpiry(doc, Tail(sorted))
RECURSIVE sortByExpiry(_)
sortByExpiry(docs) ==
  IF docs = <<>> THEN <<>>
  ELSE InsertByExpiry(docs[Len(docs)], sortByExpiry(SubSeq(docs, 1, Len(docs) - 1)))

\* the message built for page `index` (zero-based) of task t's delivery:
\* the title's part number, the count banner of the first page, the
\* role-mention content, and the records of the page
Render_page(t, pages, index, to, withRoles) ==
  [from     |-> args[t].call,
   cmd      |-> args[t].cmd,
   to       |-> to,
   index    |-> index,
   preamble |-> withRoles,
   banner   |-> IF index = 0 THEN Len(pages[1]) ELSE 0,
   part     |-> IF index = 0 THEN 0 ELSE index + 1,
   cars     |-> [k \in 1..Len(pages[index + 1]) |-> pages[index + 1][k].id]]
Render(t, pages, index, to, withRoles) ==
  [from     |-> args[t].call,
   cmd      |-> args[t].cmd,
   to       |-> to,
   index    |-> index,
   preamble |-> withRoles,
   banner   |-> IF index = 0 THEN Len(cars[t]) ELSE 0,
   part     |-> IF index = 0 THEN 0 ELSE index + 1,
   cars     |-> [k \in 1..Len(pages[index + 1]) |-> pages[index + 1][k].id]]

\* the sends of t's page loop, in program order
Outbox(t) ==
  LET carChunks == chunkArray(cars[t], PageSize)
      n == Len(carChunks)
  IN IF args[t].cmd \in {"sched", "alert"}
     THEN [i \in 1..n |-> Render(t, carChunks, i - 1, "channel", i = 1)]
     ELSE IF args[t].cmd = "dmlist" \/ ~channelOk
     THEN [i \in 1..n |-> Render(t, carChunks, i - 1, target[t], FALSE)]
     ELSE \* dmalert with an alert channel: the first page is mirrored
          <<Render(t, carChunks, 0, target[t], FALSE),
            Render(t, carChunks, 0, "channel", TRUE)>>
            \o [i \in 1..(n - 1) |-> Render(t, carChunks, i, target[t], FALSE)]

\* `await` on a send: the loop goes on only when that send has settled
Awaited_never(t) == TRUE
Awaited(t) == \A m \in inflight : m.from # args[t].call

SentReply(cmd) ==
  CASE cmd = "sched"  -> "LoggedSent"
    [] cmd = "alert"  -> "AlertSent"
    [] cmd = "dmlist" -> "DmSent"
    [] OTHER          -> "AlertsSent"

FinishDelivery(t, r) ==
  /\ Finish(t, r)
  /\ cars' = [cars EXCEPT ![t] = <<>>]
  /\ target' = [target EXCEPT ![t] = "nobody"]
  /\ idx' = [idx EXCEPT ![t] = 0]

StartDelivery(t, list) ==
  /\ cars' = [cars EXCEPT ![t] = list]
  /\ idx' = [idx EXCEPT ![t] = 0]

\* the page loop: the next send, or the code after the loop
SendNext(t) ==
  /\ alive
  /\ pc[t] = "send"
  /\ Awaited(t)
  /\ IF idx[t] < Len(chunkArray(cars[t], PageSize))
                 + (IF args[t].cmd = "dmalert" /\ channelOk THEN 1 ELSE 0)
     THEN /\ inflight' = inflight \cup {Outbox(t)[idx[t] + 1]}
          /\ idx' = [idx EXCEPT ![t] = @ + 1]
          /\ UNCHANGED <<pc, reply, args, car, cars, target>>
     ELSE /\ FinishDelivery(t, SentReply(args[t].cmd))
          /\ UNCHANGED inflight
  /\ UNCHANGED <<now, alive, StoreVars, calls, fnCall, uiVars, channelOk, posted, sink>>

\* the platform delivers a message
Deliver(m) ==
  /\ alive
  /\ m \in inflight
  /\ inflight' = inflight \ {m}
  /\ sink' = [sink EXCEPT ![m.from] = Append(@, m)]
  /\ UNCHANGED <<now, alive, StoreVars, calls, pc, args, car, reply, fnCall, uiVars,
                 channelOk, posted, cars, target, idx>>

\* the platform rejects a send.  A DM send is inside its own try: the reply
\* is edited to DM FAILED before Logger.error is reached.  A channel send is
\* not: the first thing its catch block does is Logger.error.
DeliverFail_skip(m) ==
  /\ alive
  /\ m \in inflight
  /\ inflight' = inflight \ {m}
  /\ UNCHANGED <<now, alive, StoreVars, calls, pc, reply, args, car, fnCall, uiVars,
                 channelOk, posted, cars, target, idx, sink>>
DeliverFail(m) ==
  /\ alive
  /\ m \in inflight
  /\ inflight' = inflight \ {m}
  /\ \E t \in Tasks :
       /\ pc[t] = "send"
       /\ args[t].call = m.from
       /\ reply' = [reply EXCEPT ![t] = IF m.to = "channel" THEN @ ELSE "DmFailed"]
       /\ pc' = [pc EXCEPT ![t] = "crashed"]
  /\ alive' = FALSE
  /\ UNCHANGED <<now, StoreVars, calls, args, car, fnCall, uiVars, channelOk, posted, cars,
                 target, idx, sink>>

\* ----------------------------------------------------------- scheduled job
\* the job fires (once in the time the model covers); without the alert
\* channel it calls Logger.error
SchedFire ==
  /\ alive
  /\ pc[Sched] = "idle"
  /\ UNCHANGED calls
  /\ IF channelOk
     THEN /\ args' = [args EXCEPT ![Sched] = [cmd |-> "sched", call |-> 0]]
          /\ pc' = [pc EXCEPT ![Sched] = "sched_find"]
          /\ reply' = [reply EXCEPT ![Sched] = "none"]
          /\ UNCHANGED <<alive, car>>
     ELSE Crash(Sched)
  /\ UNCHANGED <<now, StoreVars, fnCall, uiVars, alertVars>>

\* find resolves, the alert list is filtered
SchedFind ==
  /\ alive
  /\ pc[Sched] = "sched_find"
  /\ IF SelectSeq(find, Expiring) = <<>>
     THEN FinishDelivery(Sched, "LoggedNone")
     ELSE /\ StartDelivery(Sched, SelectSeq(find, Expiring))
          /\ pc' = [pc EXCEPT ![Sched] = "send"]
          /\ UNCHANGED <<args, car, reply, target>>
  /\ UNCHANGED <<now, alive, StoreVars, calls, fnCall, uiVars, channelOk, posted, inflight, sink>>

\* ---------------------------------------------------- handleAlertInsurance
AlertStart(p) ==
  /\ BeginAlert(p)
  /\ IF channelOk
     THEN /\ args' = [args EXCEPT ![p] = [cmd |-> "alert", call |-> calls]]
          /\ pc' = [pc EXCEPT ![p] = "alert_find"]
          /\ reply' = [reply EXCEPT ![p] = "none"]
          /\ UNCHANGED <<alive, car>>
     ELSE /\ reply' = [reply EXCEPT ![p] = "ChannelNotConfigured"]
          /\ pc' = [pc EXCEPT ![p] = "crashed"]
          /\ alive' = FALSE
          /\ UNCHANGED <<args, car>>
  /\ UNCHANGED <<now, StoreVars, fnCall, uiVars, alertVars>>

AlertFind(p) ==
  /\ alive
  /\ pc[p] = "alert_find"
  /\ IF SelectSeq(find, Expiring) = <<>>
     THEN FinishDelivery(p, "AllClear")
     ELSE /\ StartDelivery(p, SelectSeq(find, Expiring))
          /\ pc' = [pc EXCEPT ![p] = "send"]
          /\ UNCHANGED <<args, car, reply, target>>
  /\ UNCHANGED <<now, alive, StoreVars, calls, fnCall, uiVars, channelOk, posted, inflight, sink>>

\* ------------------------- handleDMCarInsuranceList, handleDMAlertCarInsurance
\* deferReply, up to the `await CarInsurance.find()`
DmStart(p, cmd) ==
  /\ BeginAlert(p)
  /\ args' = [args EXCEPT ![p] = [cmd |-> cmd, call |-> calls]]
  /\ pc' = [pc EXCEPT ![p] = "dm_find"]
  /\ reply' = [reply EXCEPT ![p] = "Deferred"]
  /\ UNCHANGED <<now, alive, StoreVars, car, fnCall, uiVars, alertVars>>

\* what the command will send: the registry by expiry, or the alert list
DmSelection(cmd) ==
  IF cmd = "dmlist" THEN sortByExpiry(find) ELSE SelectSeq(find, Expiring)

\* find resolves; nothing to send, or the prompt and the message collector
DmFind(p) ==
  /\ alive
  /\ pc[p] = "dm_find"
  /\ IF DmSelection(args[p].cmd) = <<>>
     THEN FinishDelivery(p, IF args[p].cmd = "dmlist" THEN "NoInsurances"
                                                      ELSE "NoExpiring")
     ELSE /\ StartDelivery(p, DmSelection(args[p].cmd))
          /\ pc' = [pc EXCEPT ![p] = "dm_wait"]
          /\ reply' = [reply EXCEPT ![p] = "Prompt"]
          /\ UNCHANGED <<args, car, target>>
  /\ UNCHANGED <<now, alive, StoreVars, calls, fnCall, uiVars, channelOk, posted, inflight, sink>>

\* filter = m => m.author.id === interaction.user.id && m.mentions.users.size > 0
CollectorFilter_anyone(p, author, mentions) ==
  Len(mentions) > 0
CollectorFilter(p, author, mentions) ==
  author = UserTag(p) /\ Len(mentions) > 0

\* the 'end' listener: if (collected.size === 0) the reply is edited to the
\* cancellation notice
EndNotice_always(size) == TRUE
EndNotice(size) == size = 0

\* the collector of invocation p has not ended: collector.stop() is the
\* first statement of the collect callback
Collecting_open(p) == pc[p] \in {"dm_wait", "send"}
Collecting(p) == pc[p] = "dm_wait"

\* a message is posted in the channel: every collector whose filter passes
\* collects it, stops (its 'end' listener runs with one message collected),
\* and takes the first mention as targetUser
MessageCreate(author, mentions) ==
  /\ alive
  /\ \E p \in Callers : Collecting(p)
  /\ pc' = [p \in Tasks |->
              IF Collecting(p) /\ CollectorFilter(p, author, mentions)
              THEN "send" ELSE pc[p]]
  /\ target' = [p \in Tasks |->
              IF Collecting(p) /\ CollectorFilter(p, author, mentions)
              THEN mentions[1] ELSE target[p]]
  /\ reply' = [p \in Tasks |->
              IF Collecting(p) /\ CollectorFilter(p, author, mentions)
                 /\ EndNotice(1)
              THEN "Cancelled" ELSE reply[p]]
  /\ posted' = [p \in Tasks |->
              IF Collecting(p) /\ CollectorFilter(p, author, mentions)
              THEN 1 ELSE posted[p]]
  /\ UNCHANGED <<now, alive, StoreVars, calls, args, car, fnCall, uiVars,
                 channelOk, cars, idx, inflight, sink>>

\* a message that passes the filter of an invocation whose collector has
\* stopped and whose pages are being sent: no listener is left for it
MessageLate(author, mentions) ==
  /\ alive
  /\ \A p \in Callers : ~(Collecting(p) /\ CollectorFilter(p, author, mentions))
  /\ \E p \in Callers :
       /\ pc[p] = "send" /\ CollectorFilter(p, author, mentions)
       /\ posted[p] < MaxPosts
  /\ posted' = [p \in Tasks |->
              IF pc[p] = "send" /\ p \in Callers
                 /\ CollectorFilter(p, author, mentions) /\ posted[p] < MaxPosts
              THEN posted[p] + 1 ELSE posted[p]]
  /\ UNCHANGED <<now, alive, StoreVars, calls, pc, args, car, reply, fnCall, uiVars,
                 channelOk, cars, target, idx, inflight, sink>>

\* the collector's 60 s run out with nothing collected: its 'end' listener
\* runs with an empty collection and nothing is left of the command
CollectorTimeout(p) ==
  /\ alive
  /\ Collecting(p)
  /\ FinishDelivery(p, IF EndNotice(0) THEN "Cancelled" ELSE reply[p])
  /\ UNCHANGED <<now, alive, StoreVars, calls, fnCall, uiVars, channelOk, posted, inflight, sink>>

\* -------------------------------------------------- handleListCarInsurance
\* up to `await CarInsurance.find().sort({ expiryDate: 1 })`
ListStart(p) ==
  /\ Begin(p)
  /\ args' = [args EXCEPT ![p] = [cmd |-> "list"]]
  /\ pc' = [pc EXCEPT ![p] = "list_find"]
  /\ reply' = [reply EXCEPT ![p] = "none"]
  /\ UNCHANGED car
  /\ UNCHANGED <<now, alive, store, nextId, fnCall, alertVars, uiVars>>

\* the embeds of the list: one per chunk, each showing the chunk's records
ListEmbeds(list) ==
  LET carChunks == chunkArray(list, PageSize)
  IN [i \in 1..Len(carChunks) |->
        [k \in 1..Len(carChunks[i]) |-> carChunks[i][k].id]]

\* the reply with the first embed and the Next button, the collector on the
\* channel and `let currentPage = 0`
NewView(p, embeds) ==
  [owner       |-> UserTag(p),
   embeds      |-> embeds,
   currentPage |-> 0,
   collector   |-> "open",
   age         |-> 0,                 \* time since createMessageComponentCollector
   idle        |-> 0,                 \* time since the last collected click
   collected   |-> 0,                 \* clicks its collector has taken
   shown       |-> [from |-> Len(views) + 1, page |-> 0],
   buttons     |-> {"insurance_list_next"}]

\* find resolves: the empty notice, the single page, or the first page with
\* its Next button and a collector
ListFind(p) ==
  /\ alive
  /\ pc[p] = "list_find"
  /\ LET embeds == ListEmbeds(sortByExpiry(find))
     IN IF Len(embeds) = 0
        THEN Finish(p, "NoInsurances") /\ UNCHANGED views
        ELSE IF Len(embeds) = 1
        THEN Finish(p, "ListShown") /\ UNCHANGED views
        ELSE /\ Len(views) < MaxViews
             /\ views' = Append(views, NewView(p, embeds))
             /\ Finish(p, "ListShown")
  /\ UNCHANGED <<now, alive, StoreVars, calls, fnCall, alertVars,
                 click, suggested, conns>>

\* filter = i => i.user.id === interaction.user.id
\*                && i.customId === 'insurance_list_next'
ListFilter(view, user, customId) ==
  /\ user = view.owner
  /\ customId = "insurance_list_next"

\* currentPage++; if (currentPage >= embeds.length) currentPage = 0
NextPage(view) ==
  IF view.currentPage + 1 >= Len(view.embeds) THEN 0 ELSE view.currentPage + 1

\* the collectors of the channel that take a button interaction
Takers(user, customId) ==
  {w \in 1..Len(views) : /\ views[w].collector = "open"
                         /\ ListFilter(views[w], user, customId)}

\* A button of view v's message is pressed.  The reply is ephemeral, so only
\* its owner can press it.  Every open collector of the channel whose filter
\* passes runs its collect callback: it advances its own currentPage and
\* calls i.update with its own embed.  i.update edits the message the button
\* is on.  The platform acknowledges an interaction once: of several updates
\* one lands, the others reject, and an update can fail on its own; a
\* rejected update is an unhandled rejection, whose handler calls
\* Logger.error.
ButtonClick(v, customId, winner, ok) ==
  /\ alive
  /\ click.n < MaxClicks
  /\ v \in 1..Len(views)
  /\ customId \in views[v].buttons
  /\ LET user   == views[v].owner
         takers == Takers(user, customId)
     IN /\ winner \in takers \cup {0}
        /\ (winner = 0) = (takers = {})
        /\ ok \/ winner # 0
        /\ click' = [n |-> click.n + 1, view |-> v, user |-> user,
                     customId |-> customId, idle |-> views[v].idle,
                     open |-> views[v].collector = "open",
                     takers |-> takers]
        /\ views' = [w \in 1..Len(views) |->
              LET taken == IF w \in takers
                           THEN [views[w] EXCEPT !.currentPage = NextPage(views[w]),
                                                 !.collected = @ + 1,
                                                 !.idle = 0]
                           ELSE views[w]
              IN IF w = v /\ winner # 0 /\ ok
                 THEN [taken EXCEPT
                         !.shown = [from |-> winner, page |-> NextPage(views[winner])],
                         !.buttons = {"insurance_list_prev", "insurance_list_next"}]
                 ELSE taken]
        /\ alive' = (ok /\ Cardinality(takers) <= 1)
  /\ UNCHANGED <<now, StoreVars, calls, pc, args, car, reply, fnCall, alertVars,
                 suggested, conns>>

\* time passes; a collector's timer is due `time` after its creation and
\* fires before more time passes
ListTick ==
  /\ alive
  /\ \E w \in 1..Len(views) : views[w].collector = "open"
  /\ \A w \in 1..Len(views) :
        views[w].collector = "open" => views[w].age < CollectorTime
  /\ views' = [w \in 1..Len(views) |->
        [views[w] EXCEPT
           !.age  = IF views[w].collector = "open" THEN @ + 1 ELSE @,
           !.idle = IF @ < CollectorTime THEN @ + 1 ELSE @]]
  /\ UNCHANGED <<now, alive, StoreVars, calls, pc, args, car, reply, fnCall,
                 alertVars, click, suggested, conns>>

\* { filter, time: 60000 }: the collector ends `time` after it was created;
\* 'end' has no listener
CollectorEnd(w) ==
  /\ alive
  /\ w \in 1..Len(views)
  /\ views[w].collector = "open"
  /\ views[w].age >= CollectorTime
  /\ views' = [views EXCEPT ![w].collector = "ended"]
  /\ UNCHANGED <<now, alive, StoreVars, calls, pc, args, car, reply, fnCall,
                 alertVars, click, suggested, conns>>


\* ------------------------------------------- interactionCreate: autocomplete
UpperSeq == <<"A","B","C","D","E","F","G","H","I","J","K","L","M",
              "N","O","P","Q","R","S","T","U","V","W","X","Y","Z">>
LowerSeq == <<"a","b","c","d","e","f","g","h","i","j","k","l","m",
              "n","o","p","q","r","s","t","u","v","w","x","y","z">>
\* $options: 'i'
FoldMap == [c \in Upper |-> LowerSeq[CHOOSE i \in 1..26 : UpperSeq[i] = c]]
Fold(c) == IF c \in Upper THEN FoldMap[c] ELSE c

\* car names as the characters the pattern is matched against
Chars(carName) ==
  CASE carName = "Camry" -> <<"C","a","m","r","y">>
    [] OTHER             -> <<>>

\* { $regex: focusedValue }: the focused value is handed to the database as
\* a regular expression, unescaped.  Of the pattern language the inputs use
\* ordinary characters, `.` (any one character) and `(`, which opens a group
\* and makes the pattern invalid when the group is never closed.
RegexInvalid(pattern) ==
  \E i \in 1..Len(pattern) :
     /\ pattern[i] = "("
     /\ \A j \in (i + 1)..Len(pattern) : pattern[j] # ")"

\* an unanchored, case-insensitive match of the pattern somewhere in text
RegexMatch(pattern, text) ==
  \E i \in 1..(Len(text) - Len(pattern) + 1) :
     \A k \in 1..Len(pattern) :
        pattern[k] = "." \/ Fold(pattern[k]) = Fold(text[i + k - 1])

\* CarInsurance.find({ $or: [carName ~ focusedValue, numberPlate ~ focusedValue] })
\*   .limit(25)
Search(focusedValue) ==
  LET found == SelectSeq(find, LAMBDA doc :
                   \/ RegexMatch(focusedValue, Chars(doc.carName))
                   \/ RegexMatch(focusedValue, doc.numberPlate))
  IN SubSeq(found, 1, IF Len(found) < SuggestLimit THEN Len(found) ELSE SuggestLimit)

\* cars.map(car => ({ name: `${carName} - ${numberPlate} (${days}d)`,
\*                    value: car.numberPlate }))
Option(doc) ==
  [kind |-> "record", carName |-> doc.carName,
   days |-> getDaysLeft(doc.expiryDate), value |-> doc.numberPlate]

\* the "Add New" option, pushed when there is no option and focusedValue is
\* not the empty string
Options(focusedValue) ==
  CHOOSE options \in
     { IF Len(found) = 0 /\ focusedValue # <<>>
       THEN <<[kind |-> "new", carName |-> "", days |-> 0,
               value |-> NewCarTag \o focusedValue]>>
       ELSE [k \in 1..Len(found) |-> Option(found[k])]
       : found \in {Search(focusedValue)} } : TRUE

AutocompleteCmds == {"add_car_insurance", "less_car_insurance", "remove_car_insurance"}

\* interaction.isAutocomplete(): no role is checked.  The find and the
\* respond are one step (nothing else reads what lies between them).  An
\* invalid pattern makes find reject; the catch calls Logger.error.
Autocomplete(p, command, focusedValue) ==
  /\ alive
  /\ command \in AutocompleteCmds
  /\ suggested.n < MaxSuggests
  /\ IF RegexInvalid(focusedValue)
     THEN /\ suggested' = [n |-> suggested.n + 1,
                           by |-> UserTag(p), roles |-> Member(p),
                           command |-> command, focused |-> focusedValue,
                           answered |-> FALSE, options |-> <<>>]
          /\ alive' = FALSE
     ELSE /\ suggested' = [n |-> suggested.n + 1,
                           by |-> UserTag(p), roles |-> Member(p),
                           command |-> command, focused |-> focusedValue,
                           answered |-> TRUE, options |-> Options(focusedValue)]
          /\ UNCHANGED alive
  /\ UNCHANGED <<now, StoreVars, calls, pc, args, car, reply, fnCall, alertVars,
                 views, click, conns>>

\* ------------------------------------------------- SIGTERM / SIGINT handlers
\* client.destroy(); mongoose.connection.close(); process.exit(0);
\* Neither promise is awaited.  Closing the database connection needs the
\* event loop, so it has only begun when process.exit runs; whether the
\* platform client is already torn down at that point depends on the
\* discord.js release (destroy() is synchronous in some, a promise in
\* others).  Collectors and deliveries are left as they are.
Signal(sig, clientDone) ==
  /\ alive
  /\ conns.exit = "none"
  /\ conns' = [client   |-> IF clientDone THEN "destroyed" ELSE "closing",
               mongoose |-> "closing",
               exit     |-> "exit(0)",
               signal   |-> sig]
  /\ alive' = FALSE
  /\ UNCHANGED <<now, StoreVars, calls, pc, args, car, reply, fnCall, alertVars,
                 views, click, suggested>>

\* ------------------------------------------------------ pure-function runs
\* The helpers run on their own: `now` and the arguments are drawn from
\* bounded sets, fnCall records the call and what it returned.
FnExpiryInputs == 0..(FnMaxNow + 2 * TicksPerDay)
FnDaysInputs   == (0 - FnMaxDays)..FnMaxDays
FnArray(n)     == [i \in 1..n |-> i]

FnFrame == UNCHANGED <<now, alive, store, nextId, calls, pc, args, car, reply, alertVars,
                       uiVars>>

CallGetDaysLeft(expiryDate) ==
  /\ fnCall' = [op |-> "getDaysLeft", arg |-> expiryDate,
                res |-> getDaysLeft(expiryDate)]
  /\ FnFrame

CallGetStatusEmoji(daysLeft) ==
  /\ fnCall' = [op |-> "getStatusEmoji", arg |-> daysLeft,
                res |-> getStatusEmoji(daysLeft)]
  /\ FnFrame

CallChunkArray(n) ==
  /\ fnCall' = [op |-> "chunkArray", arg |-> FnArray(n),
                res |-> chunkArray(FnArray(n), PageSize)]
  /\ FnFrame

\* ------------------------------------------------------------ specification
Init ==
  /\ now = 0
  /\ alive = TRUE
  /\ store = [id \in Ids |-> NoDoc]
  /\ nextId = 1
  /\ calls = MaxCalls
  /\ channelOk = TRUE
  /\ pc = [p \in Tasks |-> "idle"]
  /\ args = [p \in Tasks |-> NoArgs]
  /\ car = [p \in Tasks |-> NoCar]
  /\ reply = [p \in Tasks |-> "none"]
  /\ fnCall = [op |-> "none"]
  /\ AlertIdle
  /\ UiIdle

Next ==
  \/ Tick
  \/ \E p \in Procs, carName \in NameInputs, numberPlate \in PlateInputs,
        daysLeft \in DaysLeftInputs : NewStart(p, carName, numberPlate, daysLeft)
  \/ \E p \in Procs : NewSave(p)
  \/ \E p \in Procs, numberPlate \in PlateInputs, daysToAdd \in DaysAddInputs :
        AddStart(p, numberPlate, daysToAdd)
  \/ \E p \in Procs : AddFind(p)
  \/ \E p \in Procs : AddSave(p)
  \/ \E p \in Procs, numberPlate \in PlateInputs,
        daysToSubtract \in DaysLessInputs : LessStart(p, numberPlate, daysToSubtract)
  \/ \E p \in Procs : LessFind(p)
  \/ \E p \in Procs : LessSave(p)
  \/ \E p \in Procs, numberPlate \in PlateInputs, password \in PasswordInputs :
        RemoveStart(p, numberPlate, password)
  \/ \E p \in Procs : RemoveDelete(p)

Spec == Init /\ [][Next]_vars

InitFn ==
  /\ now \in 0..FnMaxNow
  /\ alive = TRUE
  /\ store = [id \in Ids |-> NoDoc]
  /\ nextId = 1
  /\ calls = 0
  /\ channelOk = TRUE
  /\ pc = [p \in Tasks |-> "idle"]
  /\ args = [p \in Tasks |-> NoArgs]
  /\ car = [p \in Tasks |-> NoCar]
  /\ reply = [p \in Tasks |-> "none"]
  /\ fnCall = [op |-> "none"]
  /\ AlertIdle
  /\ UiIdle

NextFn ==
  \/ \E expiryDate \in FnExpiryInputs : CallGetDaysLeft(expiryDate)
  \/ \E daysLeft \in FnDaysInputs : CallGetStatusEmoji(daysLeft)
  \/ \E n \in 0..FnMaxLen : CallChunkArray(n)

SpecFn == InitFn /\ [][NextFn]_vars

\* The delivery runs start from a store that already holds records.
\* <<number of records, how their days left are spread>>
AlertStores ==
  { <<0, "urgent">>, <<3, "active">>, <<4, "mixed">>,
    <<PageSize + 1, "urgent">>, <<AlertMaxCars, "urgent">>,
    <<AlertMaxCars, "mixed">> }
DigitChar     == <<"0","1","2","3","4","5","6","7","8","9">>
PlateOf(i)    == <<"P", DigitChar[((i \div 10) % 10) + 1], DigitChar[(i % 10) + 1]>>
\* days left at tick 0 of the i-th record
DaysAt(pattern, i) ==
  CASE pattern = "urgent" -> i % 4
    [] pattern = "active" -> 4 + (i % 5)
    [] OTHER              -> IF i % 2 = 0 THEN (i \div 2) % 4 ELSE 5 + (i % 3)

\* the store holds one of the given collections of records
Populated(stores) ==
  \E s \in stores :
       /\ store = [i \in 1..s[1] |->
                    [carName |-> "Camry",
                     numberPlate |-> PlateOf(i),
                     expiryDate |-> DaysAt(s[2], i) * TicksPerDay,
                     addedBy |-> UserTag(1),
                     lastUpdated |-> 0]]
       /\ nextId = s[1] + 1

InitAlert ==
  /\ now = 0
  /\ alive = TRUE
  /\ Populated(AlertStores)
  /\ calls = AlertMaxCalls
  /\ channelOk \in BOOLEAN
  /\ pc = [p \in Tasks |-> "idle"]
  /\ args = [p \in Tasks |-> NoArgs]
  /\ car = [p \in Tasks |-> NoCar]
  /\ reply = [p \in Tasks |-> "none"]
  /\ fnCall = [op |-> "none"]
  /\ AlertIdle
  /\ UiIdle

NextAlert ==
  \/ SchedFire
  \/ SchedFind
  \/ \E p \in Procs : AlertStart(p)
  \/ \E p \in Procs : AlertFind(p)
  \/ \E p \in Procs, cmd \in {"dmlist", "dmalert"} : DmStart(p, cmd)
  \/ \E p \in Procs : DmFind(p)
  \/ \E author \in AuthorInputs, mentions \in MentionInputs :
        MessageCreate(author, mentions)
  \/ \E p \in Procs : CollectorTimeout(p)
  \/ \E t \in Tasks : SendNext(t)
  \/ \E m \in inflight : Deliver(m)
  \/ \E m \in inflight : DeliverFail(m)

SpecAlert == InitAlert /\ [][NextAlert]_vars

\* The DM commands on their own, with the collector's timer: a collector
\* that is still waiting ends when its 60 s are over, as long as the
\* process lives.
DmStores == { <<0, "urgent">>, <<4, "mixed">>, <<PageSize + 1, "urgent">> }

InitDm ==
  /\ now = 0
  /\ alive = TRUE
  /\ Populated(DmStores)
  /\ calls = AlertMaxCalls
  /\ channelOk \in BOOLEAN
  /\ pc = [p \in Tasks |-> "idle"]
  /\ args = [p \in Tasks |-> NoArgs]
  /\ car = [p \in Tasks |-> NoCar]
  /\ reply = [p \in Tasks |-> "none"]
  /\ fnCall = [op |-> "none"]
  /\ AlertIdle
  /\ UiIdle

NextDm ==
  \/ \E p \in Procs, cmd \in {"dmlist", "dmalert"} : DmStart(p, cmd)
  \/ \E p \in Procs : DmFind(p)
  \/ \E author \in AuthorInputs, mentions \in MentionInputs :
        MessageCreate(author, mentions)
  \/ \E author \in AuthorInputs, mentions \in MentionInputs :
        MessageLate(author, mentions)
  \/ \E p \in Procs : CollectorTimeout(p)
  \/ \E t \in Procs : SendNext(t)
  \/ \E m \in inflight : Deliver(m)
  \/ \E m \in inflight : DeliverFail(m)

\* The store commands over a store that holds one record, with register-new
\* fed plates on both sides of every limit of the plate pattern: 1, 2, 15
\* and 16 characters, a hyphen, lower case, an underscore, a blank.
Plate15 == <<"M","H","0","1","-","A","B","-","1","2","3","4","-","X","Y">>
NewPlateInputs ==
  { <<"A">>, <<"A","1">>, <<"a","-">>, <<"A","_">>, <<"A"," ">>,
    Plate15, Plate15 \o <<"Z">> }
KnownPlateInputs == { <<"A","1">>, Plate15, NewCarTag \o <<"A","1">> }

\* the store holds one record, registered earlier
OneRecord ==
  /\ store = [id \in Ids |->
               IF id = 1 THEN [carName |-> "Camry",
                               numberPlate |-> <<"A", "1">>,
                               expiryDate |-> 3 * TicksPerDay,
                               addedBy |-> UserTag(1),
                               lastUpdated |-> 0]
               ELSE NoDoc]
  /\ nextId = 2

InitNew ==
  /\ now = 0
  /\ alive = TRUE
  /\ OneRecord
  /\ calls = MaxCalls
  /\ channelOk = TRUE
  /\ pc = [p \in Tasks |-> "idle"]
  /\ args = [p \in Tasks |-> NoArgs]
  /\ car = [p \in Tasks |-> NoCar]
  /\ reply = [p \in Tasks |-> "none"]
  /\ fnCall = [op |-> "none"]
  /\ AlertIdle
  /\ UiIdle

NextNew ==
  \/ \E p \in Procs, carName \in NameInputs, numberPlate \in NewPlateInputs,
        daysLeft \in DaysLeftInputs : NewStart(p, carName, numberPlate, daysLeft)
  \/ \E p \in Procs : NewSave(p)
  \/ \E p \in Procs, numberPlate \in KnownPlateInputs, daysToAdd \in DaysAddInputs :
        AddStart(p, numberPlate, daysToAdd)
  \/ \E p \in Procs : AddFind(p)
  \/ \E p \in Procs : AddSave(p)
  \/ \E p \in Procs, numberPlate \in KnownPlateInputs,
        daysToSubtract \in DaysLessInputs : LessStart(p, numberPlate, daysToSubtract)
  \/ \E p \in Procs : LessFind(p)
  \/ \E p \in Procs : LessSave(p)
  \/ \E p \in Procs, numberPlate \in KnownPlateInputs, password \in PasswordInputs :
        RemoveStart(p, numberPlate, password)
  \/ \E p \in Procs : RemoveDelete(p)

SpecNew == InitNew /\ [][NextNew]_vars

\* Every command, from members with and without a required role, over a
\* store that holds one record.
InitAuth ==
  /\ now = 0
  /\ alive = TRUE
  /\ OneRecord
  /\ calls = AlertMaxCalls
  /\ channelOk \in BOOLEAN
  /\ pc = [p \in Tasks |-> "idle"]
  /\ args = [p \in Tasks |-> NoArgs]
  /\ car = [p \in Tasks |-> NoCar]
  /\ reply = [p \in Tasks |-> "none"]
  /\ fnCall = [op |-> "none"]
  /\ AlertIdle
  /\ UiIdle

NextAuth ==
  \/ \E p \in Callers : Denied(p)
  \/ \E p \in Callers, carName \in NameInputs, numberPlate \in PlateInputs,
        daysLeft \in DaysLeftInputs : NewStart(p, carName, numberPlate, daysLeft)
  \/ \E p \in Callers : NewSave(p)
  \/ \E p \in Callers, numberPlate \in PlateInputs, daysToAdd \in DaysAddInputs :
        AddStart(p, numberPlate, daysToAdd)
  \/ \E p \in Callers : AddFind(p)
  \/ \E p \in Callers : AddSave(p)
  \/ \E p \in Callers, numberPlate \in PlateInputs,
        daysToSubtract \in DaysLessInputs : LessStart(p, numberPlate, daysToSubtract)
  \/ \E p \in Callers : LessFind(p)
  \/ \E p \in Callers : LessSave(p)
  \/ \E p \in Callers, numberPlate \in PlateInputs, password \in PasswordInputs :
        RemoveStart(p, numberPlate, password)
  \/ \E p \in Callers : RemoveDelete(p)
  \/ \E p \in Callers : AlertStart(p)
  \/ \E p \in Callers : AlertFind(p)
  \/ \E p \in Callers, cmd \in {"dmlist", "dmalert"} : DmStart(p, cmd)
  \/ \E p \in Callers : DmFind(p)
  \/ \E author \in AuthorInputs, mentions \in MentionInputs :
        MessageCreate(author, mentions)
  \/ \E p \in Callers : CollectorTimeout(p)
  \/ \E t \in Callers : SendNext(t)
  \/ \E m \in inflight : Deliver(m)
  \/ \E m \in inflight : DeliverFail(m)

SpecAuth == InitAuth /\ [][NextAuth]_vars

\* The list command with its pagination buttons, over stores of one, two
\* and three pages.
ListStores == { <<4, "mixed">>, <<PageSize + 1, "urgent">>,
                <<2 * PageSize + 1, "mixed">> }

InitList ==
  /\ now = 0
  /\ alive = TRUE
  /\ Populated(ListStores)
  /\ calls = MaxCalls
  /\ channelOk = TRUE
  /\ pc = [p \in Tasks |-> "idle"]
  /\ args = [p \in Tasks |-> NoArgs]
  /\ car = [p \in Tasks |-> NoCar]
  /\ reply = [p \in Tasks |-> "none"]
  /\ fnCall = [op |-> "none"]
  /\ AlertIdle
  /\ UiIdle

NextList ==
  \/ \E p \in Procs : ListStart(p)
  \/ \E p \in Procs : ListFind(p)
  \/ \E v \in 1..MaxViews, customId \in {"insurance_list_prev", "insurance_list_next"},
        winner \in 0..MaxViews, ok \in BOOLEAN : ButtonClick(v, customId, winner, ok)
  \/ ListTick
  \/ \E w \in 1..MaxViews : CollectorEnd(w)
  \/ \E sig \in {"SIGTERM", "SIGINT"}, clientDone \in BOOLEAN : Signal(sig, clientDone)

SpecList == InitList /\ [][NextList]_vars

\* The suggestion surface and the three commands it feeds, over stores of
\* no record, a few records and more records than one answer may carry.
\* The focused values: empty, a plate prefix in lower case, a whole plate,
\* a part of the name, a text no record contains, `.` and `(`.
SuggestStores == { <<0, "urgent">>, <<3, "mixed">>, <<SuggestLimit + 1, "mixed">> }
FocusedInputs == { <<>>, <<"p">>, <<"P","0","3">>, <<"a","m","R">>, <<"z","z">>,
                   <<".">>, <<"(">> }

\* the values of the options the last autocomplete of `command` offered
Picked(p, command) ==
  IF suggested.by = UserTag(p) /\ suggested.command = command
  THEN {suggested.options[k].value : k \in 1..Len(suggested.options)}
  ELSE {}

InitSuggest ==
  /\ now = 0
  /\ alive = TRUE
  /\ Populated(SuggestStores)
  /\ calls = AlertMaxCalls
  /\ channelOk = TRUE
  /\ pc = [p \in Tasks |-> "idle"]
  /\ args = [p \in Tasks |-> NoArgs]
  /\ car = [p \in Tasks |-> NoCar]
  /\ reply = [p \in Tasks |-> "none"]
  /\ fnCall = [op |-> "none"]
  /\ AlertIdle
  /\ UiIdle

NextSuggest ==
  \/ \E p \in Callers, command \in AutocompleteCmds, focusedValue \in FocusedInputs :
        Autocomplete(p, command, focusedValue)
  \/ \E p \in Callers : Denied(p)
  \/ \E p \in Procs, daysToAdd \in DaysAddInputs :
        \E numberPlate \in Picked(p, "add_car_insurance") :
           AddStart(p, numberPlate, daysToAdd)
  \/ \E p \in Procs : AddFind(p)
  \/ \E p \in Procs : AddSave(p)
  \/ \E p \in Procs, daysToSubtract \in DaysLessInputs :
        \E numberPlate \in Picked(p, "less_car_insurance") :
           LessStart(p, numberPlate, daysToSubtract)
  \/ \E p \in Procs : LessFind(p)
  \/ \E p \in Procs : LessSave(p)
  \/ \E p \in Procs, password \in PasswordInputs :
        \E numberPlate \in Picked(p, "remove_car_insurance") :
           RemoveStart(p, numberPlate, password)
  \/ \E p \in Procs : RemoveDelete(p)

SpecSuggest == InitSuggest /\ [][NextSuggest]_vars

TimerFires == \A p \in Procs : WF_vars(CollectorTimeout(p))

SpecDm == InitDm /\ [][NextDm]_vars /\ TimerFires

\* ================================================================ properties

HasPlate(numberPlate) == \E id \in Docs : store[id].numberPlate = numberPlate

\* C1: a register-new whose plate is already in the store is answered
\* Duplicate, and the store (the existing record and every other record) is
\* exactly as before.
C1_DuplicateRejected ==
  [][\A p \in Procs :
       (pc[p] = "new_save" /\ pc'[p] # "new_save" /\ HasPlate(car[p].numberPlate))
         => (reply'[p] = "Duplicate" /\ store' = store)]_vars

\* a register-new was answered Duplicate while the record it collided with
\* is in the store
C1_Witness ==
  \E p \in Procs : pc[p] = "done" /\ reply[p] = "Duplicate" /\ Docs # {}

\* C2: no two documents of the store carry the same numberPlate, whatever
\* the interleaving of register-new, extend, reduce and remove.
C2_PlateUnique ==
  \A i \in Docs : \A j \in Docs : i # j => store[i].numberPlate # store[j].numberPlate

\* two register-new calls with one plate overlap: p was started first and is
\* still waiting for its insert while q, started later, has already inserted
C2_Witness ==
  \E p \in Procs : \E q \in Procs : \E id \in Docs :
    /\ p # q
    /\ pc[p] = "new_save"
    /\ pc[q] = "done" /\ reply[q] = "Registered"
    /\ store[id].numberPlate = car[p].numberPlate
    /\ store[id].addedBy = UserTag(q)

\* C3: a successful extend or reduce leaves carName, numberPlate and addedBy
\* of the addressed record, and every other record, as they were; on an
\* absent plate the reply is NotFound and the store is unchanged.
C3_Frame ==
  [][\A p \in Procs :
       /\ (pc[p] \in {"add_save", "less_save"} /\ pc'[p] = "done")
            => /\ reply'[p] \in {"Extended", "Reduced"}
               /\ car[p].numberPlate = args[p].numberPlate
               /\ \A id \in Ids :
                    IF id = car[p].id /\ store[id] # NoDoc
                    THEN /\ store'[id] # NoDoc
                         /\ store'[id].carName = store[id].carName
                         /\ store'[id].numberPlate = store[id].numberPlate
                         /\ store'[id].numberPlate = args[p].numberPlate
                         /\ store'[id].addedBy = store[id].addedBy
                    ELSE store'[id] = store[id]
       /\ (pc[p] \in {"add_find", "less_find"} /\ pc'[p] # pc[p]
             /\ ~HasPlate(args[p].numberPlate))
            => (reply'[p] = "NotFound" /\ store' = store)]_vars

\* an extend has been committed: the stored expiry is the one it computed
C3_Witness ==
  \E p \in Procs : \E id \in Docs :
    /\ pc[p] = "done" /\ reply[p] = "Extended"
    /\ store[id].lastUpdated = now
    /\ store[id].expiryDate > now + 5 * TicksPerDay

\* C4: with d the record's daysLeft when the reduce is decided and k the
\* days to subtract, the reduce is answered InvalidAdjustment exactly when
\* d - k < 0 and then the store is unchanged; otherwise the candidate expiry
\* has daysLeft d - k and that candidate is what the save commits.
C4_ReduceValidity ==
  [][\A p \in Procs :
       /\ (pc[p] = "less_find" /\ pc'[p] # pc[p] /\ HasPlate(args[p].numberPlate))
            => LET id == CHOOSE i \in Docs : store[i].numberPlate = args[p].numberPlate
                   d  == Ceil(store[id].expiryDate - now, TicksPerDay)
                   k  == args[p].days
               IN /\ (reply'[p] = "InvalidAdjustment") <=> (d - k < 0)
                  /\ store' = store
                  /\ (d - k >= 0) =>
                        /\ pc'[p] = "less_save"
                        /\ car'[p].id = id
                        /\ Ceil(car'[p].expiryDate - now, TicksPerDay) = d - k
       /\ (pc[p] = "less_save" /\ reply'[p] = "Reduced" /\ store[car[p].id] # NoDoc)
            => /\ store'[car[p].id].expiryDate = car[p].expiryDate
               /\ store'[car[p].id].lastUpdated = car[p].lastUpdated]_vars

\* d = 5: subtracting 10 was rejected and the record still has 5 days left
C4_Witness ==
  \E p \in Procs : \E id \in Docs :
    /\ pc[p] = "done" /\ reply[p] = "InvalidAdjustment"
    /\ getDaysLeft(store[id].expiryDate) = 5
    /\ Cardinality(Docs) = 1

\* d = 5: subtracting 3 was committed and the record has 2 days left
C4_WitnessCommit ==
  \E p \in Procs : \E id \in Docs :
    /\ pc[p] = "done" /\ reply[p] = "Reduced"
    /\ getDaysLeft(store[id].expiryDate) = 2

\* C5: a committed reduce never leaves the record in the EXPIRED tier, the
\* record being classified at the moment of the reduce (no clock tick
\* between the handler's check and its save).
C5_ReduceNeverExpires ==
  [][\A p \in Procs :
       (pc[p] = "less_save" /\ reply'[p] = "Reduced" /\ store[car[p].id] # NoDoc
          /\ car[p].lastUpdated = now)
         => getStatusEmoji(getDaysLeft(store'[car[p].id].expiryDate)) # "EXPIRED"]_vars

\* C6: getStatusEmoji gives every integer daysLeft exactly one tier:
\* EXPIRED for daysLeft <= 0, URGENT for 1..3, WARNING for 4..7, ACTIVE from 8.
C6_TierTotal ==
  fnCall.op = "getStatusEmoji" =>
    /\ fnCall.res \in {"EXPIRED", "URGENT", "WARNING", "ACTIVE"}
    /\ (fnCall.res = "EXPIRED") <=> (fnCall.arg <= 0)
    /\ (fnCall.res = "URGENT")  <=> (fnCall.arg >= 1 /\ fnCall.arg <= 3)
    /\ (fnCall.res = "WARNING") <=> (fnCall.arg >= 4 /\ fnCall.arg <= 7)
    /\ (fnCall.res = "ACTIVE")  <=> (fnCall.arg >= 8)

\* the boundary daysLeft = 0 was classified
C6_Witness ==
  fnCall.op = "getStatusEmoji" /\ fnCall.arg = 0 /\ fnCall.res = "EXPIRED"

\* the calendar day of an instant in Asia/Kolkata
CalDay(t) == (t * (MinutesPerDay \div TicksPerDay) + TzOffsetMinutes) \div MinutesPerDay

\* C7 as stated: daysLeft = 0 only when expiryDate is on the calendar day of
\* `now` in Asia/Kolkata.
C7_ZeroOnlySameCalendarDay ==
  (fnCall.op = "getDaysLeft" /\ fnCall.res = 0) => CalDay(fnCall.arg) = CalDay(now)

\* C7 as the code has it: daysLeft is the ceiling of (expiryDate - now) in
\* days, so daysLeft = 0 exactly when expiryDate is at or before `now` and
\* less than one day before it: on the calendar day of `now` or the one
\* before.
C7_ZeroWithinLastDay ==
  fnCall.op = "getDaysLeft" =>
    /\ (fnCall.res - 1) * TicksPerDay < fnCall.arg - now
    /\ fnCall.arg - now <= fnCall.res * TicksPerDay
    /\ (fnCall.res = 0) <=> (now - TicksPerDay < fnCall.arg /\ fnCall.arg <= now)
    /\ (fnCall.res = 0) => CalDay(fnCall.arg) \in {CalDay(now), CalDay(now) - 1}

\* daysLeft = 0 for an expiry that lies in the past
C7_Witness ==
  fnCall.op = "getDaysLeft" /\ fnCall.res = 0 /\ fnCall.arg < now

RECURSIVE Flatten(_)
Flatten(pages) ==
  IF pages = <<>> THEN <<>> ELSE Head(pages) \o Flatten(Tail(pages))

\* C8: chunkArray(array, 10) partitions the array: the pages concatenated
\* give the array back, no page is empty, every page but the last has 10
\* elements, there are ceil(length / 10) pages, and none for an empty array.
C8_Partition ==
  fnCall.op = "chunkArray" =>
    /\ Flatten(fnCall.res) = fnCall.arg
    /\ \A i \in 1..Len(fnCall.res) :
         /\ Len(fnCall.res[i]) >= 1
         /\ Len(fnCall.res[i]) <= PageSize
         /\ i < Len(fnCall.res) => Len(fnCall.res[i]) = PageSize
    /\ Len(fnCall.res) = Ceil(Len(fnCall.arg), PageSize)
    /\ (fnCall.arg = <<>>) => (fnCall.res = <<>>)

\* an array that needs a final partial page: 10, 10 and a remainder
C8_Witness ==
  /\ fnCall.op = "chunkArray"
  /\ Len(fnCall.arg) > 2 * PageSize
  /\ Len(fnCall.res) = 3
  /\ Len(fnCall.res[3]) < PageSize

\* no stored record has daysLeft <= 3 now
NoneExpiring ==
  \A id \in Docs : Ceil(store[id].expiryDate - now, TicksPerDay) > 3

\* C9: when the scheduled job or alert_insurance takes its snapshot of a
\* store that has no record with daysLeft <= 3, it hands no message to the
\* platform and ends at once: the job with its log line, the command with
\* the all-clear reply; and only a task inside its page loop ever sends.
C9_NoAlertWhenNoneExpiring ==
  [][/\ \A t \in Tasks :
          (pc[t] \in {"sched_find", "alert_find"} /\ pc'[t] # pc[t] /\ NoneExpiring)
            => /\ pc'[t] = "done"
               /\ reply'[t] = (IF t = Sched THEN "LoggedNone" ELSE "AllClear")
               /\ inflight' = inflight
               /\ sink' = sink
     /\ \A m \in inflight' \ inflight :
          \E t \in Tasks : pc[t] = "send" /\ args[t].call = m.from]_vars

\* over a store of records that are all more than 3 days from expiry, the
\* job has logged and the command has been answered all-clear
C9_Witness ==
  /\ Docs # {}
  /\ pc[Sched] = "done" /\ reply[Sched] = "LoggedNone"
  /\ \E p \in Procs : pc[p] = "done" /\ reply[p] = "AllClear"
  /\ \A c \in DOMAIN sink : sink[c] = <<>>

\* the messages of delivery c that sink `to` received before position j
Before(c, j, to) == {k \in 1..(j - 1) : sink[c][k].to = to}

\* C10: of one delivery, each sink receives page 0, then page 1, and so on:
\* a page is received, or handed to the platform, only when every earlier
\* page for that sink has been received, and a delivery never has two sends
\* outstanding.
C10_PagesInOrder ==
  /\ \A c \in DOMAIN sink : \A j \in 1..Len(sink[c]) :
       /\ {sink[c][k].index : k \in Before(c, j, sink[c][j].to)}
            = 0..(sink[c][j].index - 1)
       /\ Cardinality(Before(c, j, sink[c][j].to)) = sink[c][j].index
  /\ \A m \in inflight :
       /\ {sink[m.from][k].index : k \in Before(m.from, Len(sink[m.from]) + 1, m.to)}
            = 0..(m.index - 1)
       /\ \A m2 \in inflight : m2.from = m.from => m2 = m

\* the scheduled delivery and a command's delivery are both under way:
\* each has pages received and a further page with the platform
C10_Witness ==
  \E t \in Procs :
    /\ pc[Sched] = "send" /\ pc[t] = "send"
    /\ Len(sink[0]) >= 2
    /\ Len(sink[args[t].call]) >= 1
    /\ \E m \in inflight : m.from = 0 /\ m.index = 2
    /\ \E m \in inflight : m.from = args[t].call /\ m.index >= 1

\* ---------------------------------------------------------------- C11
AlertCmds == {"sched", "alert"}

\* the records delivery c has put in front of its readers so far
RECURSIVE Delivered(_)
Delivered(msgs) ==
  IF msgs = <<>> THEN 0 ELSE Len(Head(msgs).cars) + Delivered(Tail(msgs))

\* delivery c has sent something and the task that ran it has returned
Complete(c) ==
  /\ sink[c] # <<>>
  /\ \A m \in inflight : m.from # c
  /\ \A t \in Tasks : args[t].cmd # "none" => args[t].call # c

\* what a page of an alert delivery carries, by its place in the delivery
PageShape(m) ==
  IF m.index = 0
  THEN m.preamble /\ m.banner > 0 /\ m.part = 0
  ELSE ~m.preamble /\ m.banner = 0 /\ m.part = m.index + 1

\* C11: in a delivery of the scheduled job or of alert_insurance, the first
\* message and only the first carries the role mentions and the count
\* banner, and it has no part number; every later message has neither and
\* is titled PART index+1; the banner's count is never less than the records
\* received so far and equals the records of all pages once the delivery
\* has run to its end.
C11_FirstPageOnly ==
  /\ \A m \in inflight : m.cmd \in AlertCmds => PageShape(m)
  /\ \A c \in DOMAIN sink : \A j \in 1..Len(sink[c]) :
       sink[c][j].cmd \in AlertCmds =>
         /\ PageShape(sink[c][j])
         /\ (j = 1) = (sink[c][j].index = 0)
         /\ sink[c][1].banner >= Delivered(sink[c])
         /\ Complete(c) => sink[c][1].banner = Delivered(sink[c])

\* the scheduled job and alert_insurance have both delivered 21 records in
\* three pages
C11_Witness ==
  /\ Complete(0) /\ Len(sink[0]) = 3 /\ sink[0][1].banner > 2 * PageSize
  /\ \E c \in DOMAIN sink :
       /\ c # 0 /\ Complete(c) /\ Len(sink[c]) = 3
       /\ sink[c][1].cmd = "alert"

\* ---------------------------------------------------------------- C12
\* C12: a DM command that waits for its mention and gets no qualifying
\* message is, while the process lives, eventually answered with the
\* cancellation notice; the step that cancels it finds no message of the
\* invocation sent and sends none; the notice appears only at that step,
\* never at the step in which a qualifying message is collected.
C12_TimeoutCancels ==
  /\ [][\A p \in Procs :
          /\ (pc[p] = "dm_wait" /\ pc'[p] = "done")
               => /\ reply'[p] = "Cancelled"
                  /\ sink[args[p].call] = <<>>
                  /\ \A m \in inflight : m.from # args[p].call
                  /\ sink' = sink /\ inflight' = inflight
          /\ (reply'[p] = "Cancelled" /\ reply[p] # "Cancelled")
               => pc[p] = "dm_wait" /\ pc'[p] = "done"
          /\ (pc[p] = "dm_wait" /\ pc'[p] = "send")
               => reply'[p] = reply[p]]_vars
  /\ \A p \in Procs :
       (pc[p] = "dm_wait")
         ~> (pc[p] = "send" \/ (pc[p] = "done" /\ reply[p] = "Cancelled") \/ ~alive)

\* a DM command over a non-empty store was cancelled by its timer; nothing
\* was sent
C12_Witness ==
  \E p \in Procs :
    /\ pc[p] = "done" /\ reply[p] = "Cancelled"
    /\ Docs # {}
    /\ \A c \in DOMAIN sink : sink[c] = <<>>

\* ---------------------------------------------------------------- C13
\* C13: a command from the member who holds none of the five required
\* roles ends in one step with the denial reply and nothing else: no
\* handler is entered and none of its locals is set, the store, the
\* messages sent and every other invocation are as they were, and no
\* prompt is shown or collector left waiting.
C13_DeniedOnly ==
  /\ [](/\ pc[Outsider] \in {"idle", "done"}
        /\ reply[Outsider] \in {"none", "AccessDenied"}
        /\ args[Outsider] = NoArgs /\ car[Outsider] = NoCar
        /\ cars[Outsider] = <<>> /\ target[Outsider] = "nobody")
  /\ [][(pc'[Outsider] # pc[Outsider] \/ reply'[Outsider] # reply[Outsider])
          => /\ pc'[Outsider] = "done" /\ reply'[Outsider] = "AccessDenied"
             /\ calls' = calls - 1
             /\ store' = store /\ nextId' = nextId
             /\ inflight' = inflight /\ sink' = sink
             /\ cars' = cars /\ target' = target /\ idx' = idx
             /\ \A p \in Tasks \ {Outsider} :
                  pc'[p] = pc[p] /\ reply'[p] = reply[p]]_vars

\* the member without roles was denied, over a store that holds a record
\* and with the alert channel configured
C13_Witness ==
  /\ pc[Outsider] = "done" /\ reply[Outsider] = "AccessDenied"
  /\ Member(Outsider) \cap requiredRoles = {}
  /\ Docs # {} /\ channelOk

\* ---------------------------------------------------------------- C14
\* the platform has settled send m without delivering it
Failed(m) == m \in inflight /\ m \notin inflight' /\ sink' = sink

\* C14: when a send of a delivery fails, what its sinks received stays as
\* it is, the store is untouched, the task leaves its page loop for good
\* and has nothing more with the platform; a message is only ever handed
\* over by a task inside its page loop, as the next send of that loop; so
\* an aborted delivery has delivered exactly the sends before the failed
\* one and the failed one is nowhere.
C14_FailureAborts ==
  /\ [][/\ \A m \in inflight :
             Failed(m) =>
               /\ store' = store /\ nextId' = nextId
               /\ \A m2 \in inflight' : m2.from # m.from
               /\ \E t \in Tasks :
                    /\ args[t].cmd # "none" /\ args[t].call = m.from
                    /\ pc[t] = "send" /\ pc'[t] = "crashed"
        /\ \A t \in Tasks : pc[t] = "crashed" => pc'[t] = "crashed"
        /\ \A m \in inflight' \ inflight :
             \E t \in Tasks :
               /\ pc[t] = "send" /\ args[t].call = m.from
               /\ m = Outbox(t)[idx[t] + 1]]_vars
  /\ [](\A t \in Tasks :
          (pc[t] = "crashed" /\ args[t].cmd # "none" /\ idx[t] > 0)
            => /\ sink[args[t].call] = SubSeq(Outbox(t), 1, idx[t] - 1)
               /\ \A m \in inflight : m.from # args[t].call)

\* a dm-list delivery was aborted at its second page or later, with the
\* pages before it received
C14_Witness ==
  \E t \in Tasks :
    /\ pc[t] = "crashed" /\ args[t].cmd # "none"
    /\ idx[t] >= 2
    /\ Len(sink[args[t].call]) = idx[t] - 1
    /\ args[t].cmd = "dmlist"

\* ---------------------------------------------------------------- C15
FailureReplies == {"DmFailed", "AlertFailed"}

\* C15: an operator's command whose delivery was aborted by a failed send
\* (the process does nothing after the step that aborts it) has answered
\* the operator with a failure response.
C15_FailureReported ==
  \A p \in Callers :
    (pc[p] = "crashed" /\ args[p].cmd \in {"alert", "dmlist", "dmalert"}
       /\ idx[p] > 0)
      => reply[p] \in FailureReplies

\* ---------------------------------------------------------------- C16
\* [A-Za-z0-9-]{2,15}
PatternOK(plate) ==
  /\ Len(plate) >= 2 /\ Len(plate) <= 15
  /\ \A i \in 1..Len(plate) : plate[i] \in Upper \cup Lower \cup Digit \cup {"-"}

\* C16: a register-new whose plate is outside the pattern is answered with
\* the validation failure in its first step and leaves the store alone; a
\* handler goes on to its insert only with a plate inside the pattern; and
\* every plate in the store is inside the pattern.
C16_PlatePattern ==
  /\ [][\A p \in Procs, carName \in NameInputs, numberPlate \in NewPlateInputs,
           daysLeft \in DaysLeftInputs :
          (NewStart(p, carName, numberPlate, daysLeft) /\ ~PatternOK(numberPlate))
            => /\ pc'[p] = "done" /\ reply'[p] = "InvalidPlate"
               /\ store' = store /\ nextId' = nextId]_vars
  /\ [](/\ \A p \in Procs : pc[p] = "new_save" => PatternOK(car[p].numberPlate)
        /\ \A id \in Docs : PatternOK(store[id].numberPlate))

\* a register-new has been refused for its plate while the store holds a
\* plate of 15 characters, hyphens among them
C16_Witness ==
  /\ \E p \in Procs : pc[p] = "done" /\ reply[p] = "InvalidPlate"
  /\ \E id \in Docs : store[id].numberPlate = Plate15

\* ---------------------------------------------------------------- C17
\* C17: a remove command never changes the store in its first step; with a
\* password other than the shared secret it ends there (the query is never
\* issued), and it goes on to its query only with the secret.  A command
\* with the secret that ends in its first step was given a plate carrying
\* the autocomplete tag, which is in no record, and is told that the
\* vehicle is not registered.  The query removes the one record that has
\* the plate and answers Removed, or finds none, answers NotFound and
\* leaves the store as it is.  No other step takes a record out of the
\* store.
C17_RemoveGated ==
  [][/\ \A p \in Procs :
          /\ \A numberPlate \in KnownPlateInputs, password \in PasswordInputs :
               RemoveStart(p, numberPlate, password)
                 => /\ store' = store /\ nextId' = nextId
                    /\ password # "slayers1"
                         => /\ pc'[p] = "done"
                            /\ reply'[p] \in {"WrongPassword", "Unregistered"}
                    /\ pc'[p] = "remove_delete" => password = "slayers1"
                    /\ (password = "slayers1" /\ pc'[p] = "done")
                         => reply'[p] = "Unregistered" /\ ~HasPlate(numberPlate)
          /\ (pc[p] = "remove_delete" /\ pc'[p] # "remove_delete")
               => IF HasPlate(args[p].numberPlate)
                  THEN /\ reply'[p] = "Removed"
                       /\ \E id \in Docs :
                            /\ store[id].numberPlate = args[p].numberPlate
                            /\ store' = [store EXCEPT ![id] = NoDoc]
                  ELSE reply'[p] = "NotFound" /\ store' = store
     /\ (\E id \in Docs : store'[id] = NoDoc)
          => \E p \in Procs : pc[p] = "remove_delete" /\ pc'[p] = "done"]_vars

\* one of two records has been removed and the other is still there
C17_Witness ==
  /\ \E p \in Procs : pc[p] = "done" /\ reply[p] = "Removed"
  /\ Cardinality(Docs) = 1
  /\ nextId = 3

\* ---------------------------------------------------------------- C18
\* the record ids on the pages of a delivery, in the order received
RECURSIVE PageIds(_)
PageIds(msgs) ==
  IF msgs = <<>> THEN <<>> ELSE Head(msgs).cars \o PageIds(Tail(msgs))

\* the ids of the stored records with daysLeft <= 3, in store order (the
\* store and the clock are fixed during these runs: this is the snapshot)
DueIds ==
  SelectSeq([i \in 1..Len(store) |-> i],
            LAMBDA i : /\ store[i] # NoDoc
                       /\ Ceil(store[i].expiryDate - now, TicksPerDay) <= 3)

IsPrefix(a, b) == Len(a) <= Len(b) /\ a = SubSeq(b, 1, Len(a))

\* C18: what a delivery of the scheduled job or of alert_insurance has put
\* on its pages is always an initial part of the snapshot's records with
\* daysLeft <= 3 in snapshot order, and all of them, each once, when the
\* delivery has run to its end.
C18_AlertCoversDue ==
  \A c \in DOMAIN sink :
    (sink[c] # <<>> /\ sink[c][1].cmd \in AlertCmds)
      => /\ IsPrefix(PageIds(sink[c]), DueIds)
         /\ Complete(c) => PageIds(sink[c]) = DueIds

\* the scheduled delivery has run to its end over a store that holds
\* records on both sides of the 3-day limit
C18_Witness ==
  /\ Complete(0)
  /\ Len(PageIds(sink[0])) >= PageSize
  /\ \E id \in Docs : Ceil(store[id].expiryDate - now, TicksPerDay) > 3
  /\ \E id \in Docs : Ceil(store[id].expiryDate - now, TicksPerDay) = 3

\* ---------------------------------------------------------------- C19
\* a message by the operator of invocation p that mentions someone
ByOperatorWithMention(p, author, mentions) ==
  author = UserTag(p) /\ mentions # <<>>

\* ... and mentions someone other than the operator
ByOperatorWithOtherMention(p, author, mentions) ==
  /\ ByOperatorWithMention(p, author, mentions)
  /\ \E k \in 1..Len(mentions) : mentions[k] # UserTag(p)

\* The handshake of the DM commands, for a given reading of "qualifying
\* message": a waiting invocation starts its delivery only in the step in
\* which a qualifying message is posted, and takes that message's first
\* mention as its target; a message that does not qualify leaves it
\* waiting; its target is set in no other step; and a direct message is
\* handed over only by an invocation in its page loop, to its target.
HandshakeStep(Qualifies(_, _, _)) ==
  /\ \A p \in Procs :
       /\ (pc[p] = "dm_wait" /\ pc'[p] = "send")
            => \E author \in AuthorInputs, mentions \in MentionInputs :
                 /\ MessageCreate(author, mentions)
                 /\ Qualifies(p, author, mentions)
                 /\ target'[p] = mentions[1]
       /\ \A author \in AuthorInputs, mentions \in MentionInputs :
            (MessageCreate(author, mentions) /\ pc[p] = "dm_wait"
               /\ ~Qualifies(p, author, mentions))
              => /\ pc'[p] = "dm_wait" /\ target'[p] = target[p]
                 /\ reply'[p] = reply[p]
       /\ (target'[p] # target[p] /\ target'[p] # "nobody")
            => pc[p] = "dm_wait" /\ pc'[p] = "send"
  /\ \A m \in inflight' \ inflight :
       m.to # "channel"
         => \E p \in Procs :
              /\ pc[p] = "send" /\ args[p].call = m.from
              /\ m.to = target[p]

\* an invocation that has not matched a message has sent nothing
NothingBeforeMatch ==
  \A p \in Procs :
    pc[p] \in {"dm_find", "dm_wait"}
      => /\ target[p] = "nobody"
         /\ sink[args[p].call] = <<>>
         /\ \A m \in inflight : m.from # args[p].call

\* C19 as stated: the qualifying message mentions at least one identity
\* other than the operator.
C19_OtherIdentityMentioned ==
  [][HandshakeStep(ByOperatorWithOtherMention)]_vars /\ []NothingBeforeMatch

\* C19 (amended): the qualifying message is one by the operator with at
\* least one mention, whoever is mentioned.
C19_OperatorMentionStarts ==
  [][HandshakeStep(ByOperatorWithMention)]_vars /\ []NothingBeforeMatch

\* an operator who mentioned only themself is being sent the pages
C19_Witness ==
  \E p \in Procs :
    /\ pc[p] = "send" /\ target[p] = UserTag(p)
    /\ sink[args[p].call] # <<>>
    /\ sink[args[p].call][1].to = UserTag(p)

\* ---------------------------------------------------------------- C20
DmCmds == {"dmlist", "dmalert"}

\* the direct messages of delivery c: received, and with the platform
DmsOf(c) ==
  {sink[c][j] : j \in {k \in 1..Len(sink[c]) :
                         sink[c][k].cmd \in DmCmds /\ sink[c][k].to # "channel"}}
    \cup {m \in inflight : m.from = c /\ m.cmd \in DmCmds /\ m.to # "channel"}

\* C20: however many messages pass an invocation's filter, its direct
\* messages all go to one target, no page reaches that target twice and no
\* page is with the platform that the target already has; an invocation
\* in its page loop keeps the target it took and never goes back to an
\* earlier page.
C20_SingleShot ==
  /\ [](\A c \in DOMAIN sink :
          /\ \A m1, m2 \in DmsOf(c) : m1.to = m2.to
          /\ \A j, k \in 1..Len(sink[c]) :
               (j # k /\ sink[c][j].to = sink[c][k].to)
                 => sink[c][j].index # sink[c][k].index
          /\ \A m \in inflight : \A j \in 1..Len(sink[c]) :
               (m.from = c /\ m.to = sink[c][j].to) => m.index # sink[c][j].index)
  /\ [][\A p \in Procs :
          pc[p] = "send"
            => /\ target'[p] \in {target[p], "nobody"}
               /\ idx'[p] >= idx[p] \/ pc'[p] = "done"]_vars

\* the operator posted a second qualifying message while the pages were
\* being sent: a page has arrived, the next is with the platform, and the
\* target is still the first message's
C20_Witness ==
  \E p \in Procs :
    /\ pc[p] = "send" /\ posted[p] >= 2
    /\ sink[args[p].call] # <<>>
    /\ \E m \in inflight : m.from = args[p].call /\ m.index >= 1 /\ m.to = target[p]

\* ---------------------------------------------------------------------- C21
ViewIds == 1..Len(views)

\* the page view v's message displays is the page at v's cursor
ShowsCursorPage(v) ==
  views[v].shown = [from |-> v, page |-> views[v].currentPage]

\* C21: while the process lives, the page cursor of every multi-page list
\* view is within 0..totalPages-1, equals the number of clicks its
\* collector has taken modulo totalPages (0 before the first, 0 again after
\* totalPages of them), and the view's message displays the page at the
\* cursor.
C21_CursorWraps ==
  alive =>
    \A v \in ViewIds :
       /\ views[v].currentPage \in 0..(Len(views[v].embeds) - 1)
       /\ views[v].currentPage = views[v].collected % Len(views[v].embeds)
       /\ ShowsCursorPage(v)

\* ---------------------------------------------------------------------- C22
\* C22: a Next Page click by the view's operator that arrives less than 60 s
\* after the previous click the view's collector took is honoured: the
\* view's collector takes it, however long ago the view was opened.
C22_WindowPerClick ==
  (/\ click.n > 0
   /\ click.customId = "insurance_list_next"
   /\ views[click.view].collected >= 1
   /\ click.idle < CollectorTime)
  => click.view \in click.takers

\* ---------------------------------------------------------------------- C23
\* C23: once a view shows both buttons, a click of its operator on either
\* of them while the view's collector is open is taken by that collector,
\* and no collector ever takes a click of an identity other than its
\* view's operator.
C23_BothButtonsQualify ==
  click.n > 0 =>
    /\ click.open => click.view \in click.takers
    /\ \A w \in click.takers : views[w].owner = click.user

\* ---------------------------------------------------------------------- C24
\* C24: a record comes into existence only by the insert of a register-new
\* that answers "registered" for its plate; in particular the save of an
\* extend or a reduce that loaded a record which a remove has deleted since
\* does not bring it back, so a removed plate stays absent until it is
\* registered again.
C24_OnlyRegisterCreates ==
  [][\A id \in DOMAIN store :
        (store[id] = NoDoc /\ store'[id] # NoDoc) =>
           \E p \in Procs : /\ pc[p] = "new_save"
                            /\ pc'[p] = "done"
                            /\ reply'[p] = "Registered"
                            /\ store'[id].numberPlate = car[p].numberPlate]_vars

\* an extend or reduce saved after a remove had deleted the record it had
\* loaded (the save rejected), and the store holds no record
C24_Witness ==
  /\ Docs = {}
  /\ \E q \in Procs : reply[q] = "Removed"
  /\ \E p \in Procs : pc[p] = "crashed"

\* ---------------------------------------------------------------------- C25
\* C25: when the process has exited on SIGTERM or SIGINT, the platform
\* connection and the database connection have both finished closing.
C25_ClosedBeforeExit ==
  conns.exit # "none" =>
     /\ conns.client = "destroyed"
     /\ conns.mongoose = "closed"

\* ---------------------------------------------------------------------- C26
\* C26: an invocation whose handler threw an unexpected failure has
\* answered its operator with the generic failure notice.
C26_GenericNotice ==
  \A p \in Procs : pc[p] = "crashed" => reply[p] = "SystemError"

\* ---------------------------------------------------------------------- C27
\* text contains q, case-insensitively
Contains(text, q) ==
  \E i \in 1..(Len(text) - Len(q) + 1) :
     \A k \in 1..Len(q) : Fold(q[k]) = Fold(text[i + k - 1])

NoRecordContains(q) ==
  \A id \in Docs : /\ ~Contains(Chars(store[id].carName), q)
                   /\ ~Contains(store[id].numberPlate, q)

TaggedOptions(options) ==
  {k \in 1..Len(options) : StartsWithNewCar(options[k].value)}

TaggedPicks(p) ==
  {v \in UNION {Picked(p, command) : command \in AutocompleteCmds} :
      StartsWithNewCar(v)}

\* C27: an autocomplete answer carries at most 25 suggestions; it carries
\* exactly one tagged suggestion precisely when no record's name or plate
\* contains the input and the input is not empty; extend, reduce and remove
\* invoked with a tagged value answer with the redirect and leave the store
\* alone without reading it; and no stored plate carries the tag.
C27_Suggestions ==
  /\ [](suggested.n > 0 => Len(suggested.options) <= SuggestLimit)
  /\ [](\A id \in Docs : ~StartsWithNewCar(store[id].numberPlate))
  /\ [][suggested'.n > suggested.n =>
          ( (Cardinality(TaggedOptions(suggested'.options)) = 1)
            <=> (NoRecordContains(suggested'.focused) /\ suggested'.focused # <<>>) )]_vars
  /\ [][\A p \in Procs : \A numberPlate \in TaggedPicks(p) :
          ( \/ \E d \in DaysAddInputs : AddStart(p, numberPlate, d)
            \/ \E d \in DaysLessInputs : LessStart(p, numberPlate, d)
            \/ \E pw \in PasswordInputs : RemoveStart(p, numberPlate, pw) )
          => /\ reply'[p] \in {"Redirect", "Unregistered"}
             /\ pc'[p] = "done"
             /\ store' = store]_vars

\* ---------------------------------------------------------------------- C28
\* C28: when every operator has extended the one stored record (by the one
\* value of DaysAddInputs each) and was answered "extended", the record's
\* expiry is its original expiry plus the sum of the extensions.
C28_NoLostUpdate ==
  (/\ \A p \in Procs : pc[p] = "done" /\ reply[p] = "Extended"
   /\ store[1] # NoDoc)
  => \A d \in DaysAddInputs :
        store[1].expiryDate = (3 + NumProcs * d) * TicksPerDay

\* ---------------------------------------------------------------------- C29
\* C29: a button click on one list view leaves the cursor and the displayed
\* page of every other view as they were, and what the clicked view then
\* displays is a page of its own.
C29_IndependentCursors ==
  [][click'.n > click.n =>
       /\ \A w \in ViewIds \ {click'.view} :
             /\ views'[w].currentPage = views[w].currentPage
             /\ views'[w].shown = views[w].shown
       /\ views'[click'.view].shown.from = click'.view]_vars

\* ---------------------------------------------------------------------- C30
\* C30: an identity that holds none of the five authorization roles is
\* never handed record data: its commands are only ever refused, and an
\* autocomplete answer to it carries no suggestion made from a record.
C30_RecordsOnlyToRoles ==
  /\ \A p \in Callers :
        ~checkRoles(Member(p)) => reply[p] \in {"none", "AccessDenied"}
  /\ (suggested.n > 0 /\ ~checkRoles(suggested.roles)) =>
        \A k \in 1..Len(suggested.options) : suggested.options[k].kind # "record"

\* ---------------------------------------------------------------------- C31
\* C31: no failure inside an event ends the process: whatever has failed
\* (the alert channel missing, a channel post or a direct message rejected,
\* a store call rejected), no error path has raised and the process is
\* alive to take later commands and firings.
C31_ProcessSurvives ==
  /\ \A t \in Tasks : pc[t] # "crashed"
  /\ alive
====
